---- MODULE Spec2Model ----
(***************************************************************************)
(* A model of the streaming relay of main.py: the provider directory and   *)
(* its lookup, the POST /api/generate handler, and the generator that      *)
(* re-emits the upstream's SSE lines as text fragments.                    *)
(***************************************************************************)
EXTENDS Naturals, Sequences, FiniteSets, TLC

VARIABLES
    model_providers,  \* the directory loaded once at import (main.py:27)
    lookups,          \* per queried name, the results get_model_details returned
    loop,             \* the request whose handler occupies the event loop, or 0
    pc,               \* per request: "idle", "connecting", "streaming", "done"
    body,             \* per request: the inbound JSON body
    target,           \* per request: model_details of the handler
    posts,            \* per request: outbound POSTs issued
    reply,            \* per request: what the upstream answered
    status,           \* per request: HTTP status sent to the caller, 0 = none yet
    detail,           \* per request: detail of the error response
    gen,              \* per request: state of the stream_generator object
    exit,             \* per request: how stream_generator left its loop
    connOpen,         \* per request: the upstream response is not closed yet
    lines,            \* per request: the lines iter_lines has handed out so far
    out,              \* per request: the fragments delivered to the caller
    callerGone        \* per request: the caller has disconnected

vars == <<model_providers, lookups, loop, pc, body, target, posts, reply,
          status, detail, gen, exit, connOpen, lines, out, callerGone>>

reqVars == <<loop, pc, body, target, posts, reply, status, detail, gen, exit,
             connOpen, lines, out, callerGone>>

----------------------------------------------------------------------------
(* Bounds of the model *)

MaxProviders == 2

MaxModels == 2

MaxLines == 3

----------------------------------------------------------------------------
(* The provider directory: provider.json as load_providers returns it *)

ModelNames == {"", "gpt"}

ApiNames == {"m1", "m2"}

Urls == {"u1", "u2"}

ApiKeys == {"k1"}

QueryNames == ModelNames \cup {"nope"}

SeqsOfLen(S, k) == [1..k -> S]

ModelEntries == [name : ModelNames, apiName : ApiNames]

\* providers with exactly k models; the apiKey field is optional
ProvidersWith(k) ==
    {[url |-> u, models |-> ms] : u \in Urls, ms \in SeqsOfLen(ModelEntries, k)}
    \cup {[url |-> u, apiKey |-> a, models |-> ms] :
             u \in Urls, a \in ApiKeys, ms \in SeqsOfLen(ModelEntries, k)}

RECURSIVE DirectoriesOf(_, _)
\* the directories of at most p providers holding at most m models in all
DirectoriesOf(p, m) ==
    IF p = 0 THEN {<<>>}
    ELSE {<<>>} \cup UNION {
             {<<pr>> \o d : pr \in ProvidersWith(k), d \in DirectoriesOf(p - 1, m - k)}
             : k \in 0..m}

Directories == DirectoriesOf(MaxProviders, MaxModels)

\* two providers; "gpt" and "" are public names, the first provider has no apiKey
DirA ==
    << [url |-> "u1", models |-> <<[name |-> "gpt", apiName |-> "m1"]>>],
       [url |-> "u2", apiKey |-> "k1",
        models |-> <<[name |-> "", apiName |-> "m2"]>>] >>

\* one provider; "gpt" is the only public name
DirB ==
    << [url |-> "u1", apiKey |-> "k1",
        models |-> <<[name |-> "gpt", apiName |-> "m1"]>>] >>

SampleDirectories == {DirA, DirB}

None == [None |-> TRUE]

\* provider.get('apiKey', '')
ProviderApiKey(provider) ==
    IF "apiKey" \in DOMAIN provider THEN provider.apiKey ELSE ""

ModelDetails(provider, model) ==
    [apiName |-> model.apiName, url |-> provider.url,
     apiKey |-> ProviderApiKey(provider)]

RECURSIVE ScanModels(_, _, _)
\* the inner loop of get_model_details from model index j on
ScanModels(provider, model_name, j) ==
    IF j > Len(provider.models) THEN None
    ELSE IF provider.models[j].name = model_name
         THEN ModelDetails(provider, provider.models[j])
         ELSE ScanModels(provider, model_name, j + 1)

RECURSIVE ScanProviders_LastMatch(_, _, _)
\* the outer loop, were a later provider's match to replace an earlier one
ScanProviders_LastMatch(providers, model_name, i) ==
    IF i > Len(providers) THEN None
    ELSE LET later == ScanProviders_LastMatch(providers, model_name, i + 1)
         IN  IF later # None THEN later
             ELSE ScanModels(providers[i], model_name, 1)

RECURSIVE ScanProviders(_, _, _)
\* the outer loop of get_model_details from provider index i on
ScanProviders(providers, model_name, i) ==
    IF i > Len(providers) THEN None
    ELSE LET found == ScanModels(providers[i], model_name, 1)
         IN  IF found # None THEN found
             ELSE ScanProviders(providers, model_name, i + 1)

get_model_details(model_name) == ScanProviders(model_providers, model_name, 1)

----------------------------------------------------------------------------
(* The requests *)

Requests == {1, 2}

NoBody == [hasModelName |-> FALSE, modelName |-> "", hasMessages |-> FALSE]

NoReply == [kind |-> "none", code |-> 0, text |-> ""]

\* the detail of an error response, as the set of its parts
NoDetail == {}

InitRequests ==
    /\ loop = 0
    /\ pc = [r \in Requests |-> "idle"]
    /\ body = [r \in Requests |-> NoBody]
    /\ target = [r \in Requests |-> None]
    /\ posts = [r \in Requests |-> 0]
    /\ reply = [r \in Requests |-> NoReply]
    /\ status = [r \in Requests |-> 0]
    /\ detail = [r \in Requests |-> NoDetail]
    /\ gen = [r \in Requests |-> "none"]
    /\ exit = [r \in Requests |-> "none"]
    /\ connOpen = [r \in Requests |-> FALSE]
    /\ lines = [r \in Requests |-> <<>>]
    /\ out = [r \in Requests |-> <<>>]
    /\ callerGone = [r \in Requests |-> FALSE]

----------------------------------------------------------------------------
(* JSON values as Python sees them after json.loads, tagged by type *)

PyNone == [t |-> "none"]

PyInt(n) == [t |-> "int", n |-> n]

PyStr(s) == [t |-> "str", s |-> s]

PyList(items) == [t |-> "list", items |-> items]

PyDict(map) == [t |-> "dict", map |-> map]

EmptyMap == <<>>

Parsed(v) == [ok |-> TRUE, val |-> v]

JSONDecodeError == [ok |-> FALSE, val |-> PyNone]

Delta(content) ==
    PyDict([choices |-> PyList(<<PyDict([delta |-> PyDict([content |-> content])])>>)])

\* json.loads on the payload texts the upstream sends in this model
JsonLoads(text) ==
    CASE text = "{\"choices\":[{\"delta\":{\"content\":\"Hi\"}}]}" -> Parsed(Delta(PyStr("Hi")))
      [] text = "{\"choices\":[{\"delta\":{\"content\":\"Yo\"}}]}" -> Parsed(Delta(PyStr("Yo")))
      [] text = "{\"choices\":[{\"delta\":{\"content\":\"\"}}]}" -> Parsed(Delta(PyStr("")))
      [] text = "{\"choices\":[{\"delta\":{\"content\":5}}]}" -> Parsed(Delta(PyInt(5)))
      [] text = "{\"choices\":[{\"delta\":{}}]}" ->
            Parsed(PyDict([choices |-> PyList(<<PyDict([delta |-> PyDict(EmptyMap)])>>)]))
      [] text = "{\"choices\":[]}" -> Parsed(PyDict([choices |-> PyList(<<>>)]))
      [] text = "{\"error\":\"overloaded\"}" -> Parsed(PyDict([error |-> PyStr("overloaded")]))
      [] text = "123" -> Parsed(PyInt(123))
      [] OTHER -> JSONDecodeError

\* bool(v)
Truthy(v) ==
    CASE v.t = "none" -> FALSE
      [] v.t = "int" -> v.n # 0
      [] v.t = "str" -> v.s # ""
      [] v.t = "list" -> Len(v.items) > 0
      [] v.t = "dict" -> DOMAIN v.map # {}

\* whether `key in v` raises TypeError
InRaises(v) == v.t \in {"none", "int"}

\* `key in v` for a string key; no string of this model has a proper substring
\* that is a key, so on a str it is equality
In(key, v) ==
    CASE v.t = "dict" -> key \in DOMAIN v.map
      [] v.t = "list" -> \E i \in 1..Len(v.items) :
                             v.items[i].t = "str" /\ v.items[i].s = key
      [] v.t = "str" -> v.s = key
      [] OTHER -> FALSE

\* whether v[key] raises for a string key (v is known to satisfy `key in v`)
SubscriptRaises(v) == v.t # "dict"

Skip == [kind |-> "skip", frag |-> ""]

Yield(frag) == [kind |-> "yield", frag |-> frag]

Raise == [kind |-> "raise", frag |-> ""]

\* the for loop is left early; no branch of lines 83-107 does so
Break == [kind |-> "break", frag |-> ""]

\* lines 95-98, without the `if content_chunk` test
ForwardContent_Unchecked(content_chunk) ==
    IF content_chunk.t = "str" THEN Yield(content_chunk.s) ELSE Raise

\* lines 95-98: content_chunk is forwarded when truthy; encode needs a str
ForwardContent(content_chunk) ==
    IF ~Truthy(content_chunk) THEN Skip
    ELSE IF content_chunk.t = "str" THEN Yield(content_chunk.s)
    ELSE Raise

\* lines 93-98 on the parsed data
ExtractContent(data) ==
    IF data.t # "dict" THEN Raise                       \* data.get: AttributeError
    ELSE LET choices == IF "choices" \in DOMAIN data.map
                        THEN data.map.choices ELSE PyList(<<>>)
         IN
         IF ~Truthy(choices) THEN Skip
         ELSE IF choices.t \in {"int", "dict"} THEN Raise  \* choices[0]
         ELSE IF choices.t = "str" THEN Skip               \* 'delta' in one character
         ELSE LET first == choices.items[1] IN
              IF InRaises(first) THEN Raise
              ELSE IF ~In("delta", first) THEN Skip
              ELSE IF SubscriptRaises(first) THEN Raise
              ELSE LET delta == first.map.delta IN
                   IF InRaises(delta) THEN Raise
                   ELSE IF ~In("content", delta) THEN Skip
                   ELSE IF SubscriptRaises(delta) THEN Raise
                   ELSE ForwardContent(delta.map.content)

----------------------------------------------------------------------------
(* The upstream's lines, as iter_lines hands them out: a line is the        *)
(* sequence of its pieces, the first six bytes and the remainder            *)

DataPrefix == "data: "

InvalidBytes == "<0xff>"

BlankLine == <<>>

CommentLine == <<": keep-alive">>

DoneLine == <<DataPrefix, "[DONE]">>

PaddedDoneLine == <<DataPrefix, " [DONE] ">>

NotJsonLine == <<DataPrefix, "not json">>

HiLine == <<DataPrefix, "{\"choices\":[{\"delta\":{\"content\":\"Hi\"}}]}">>

YoLine == <<DataPrefix, "{\"choices\":[{\"delta\":{\"content\":\"Yo\"}}]}">>

EmptyContentLine == <<DataPrefix, "{\"choices\":[{\"delta\":{\"content\":\"\"}}]}">>

NumberContentLine == <<DataPrefix, "{\"choices\":[{\"delta\":{\"content\":5}}]}">>

NoContentLine == <<DataPrefix, "{\"choices\":[{\"delta\":{}}]}">>

NoChoicesLine == <<DataPrefix, "{\"choices\":[]}">>

NumberLine == <<DataPrefix, "123">>

BadUtf8Line == <<DataPrefix, InvalidBytes>>

Lines ==
    {BlankLine, CommentLine, DoneLine, PaddedDoneLine, NotJsonLine, HiLine, YoLine,
     EmptyContentLine, NumberContentLine, NoContentLine, NoChoicesLine, NumberLine,
     BadUtf8Line}

\* line.decode('utf-8') succeeds
Decodable(line) == \A i \in 1..Len(line) : line[i] # InvalidBytes

\* decoded_line.startswith('data: ')
StartsWithData(line) == Len(line) >= 1 /\ line[1] = DataPrefix

\* decoded_line[len('data: '):]
AfterPrefix(line) == IF Len(line) >= 2 THEN line[2] ELSE ""

\* json_str.strip()
Strip(text) == IF text = " [DONE] " THEN "[DONE]" ELSE text

\* the body of the for loop on a [DONE] line, were it to leave the loop
OnDone_Breaks == Break

\* line 88-89: continue
OnDone == Skip

\* lines 83-107: one pass of the for loop over `line`
StreamLine(line) ==
    IF line = BlankLine THEN Skip
    ELSE IF ~Decodable(line) THEN Raise                 \* UnicodeDecodeError
    ELSE IF ~StartsWithData(line) THEN Skip
    ELSE LET json_str == AfterPrefix(line) IN
         IF Strip(json_str) = "[DONE]" THEN OnDone
         ELSE LET data == JsonLoads(json_str) IN
              IF ~data.ok THEN Skip
              ELSE ExtractContent(data.val)

----------------------------------------------------------------------------
(* POST /api/generate: the handler up to the upstream call *)

\* the bodies a caller may post: either field may be missing
RequestBodies ==
    {[hasModelName |-> TRUE, modelName |-> n, hasMessages |-> m] :
        n \in QueryNames, m \in BOOLEAN}
    \cup {[hasModelName |-> FALSE, modelName |-> "", hasMessages |-> m] : m \in BOOLEAN}

\* GenerationRequest: both fields are required, modelName is any str
Validates(b) == b.hasModelName /\ b.hasMessages

\* the handler answers with an error response and returns
Respond(r, code, d) ==
    /\ status' = [status EXCEPT ![r] = code]
    /\ detail' = [detail EXCEPT ![r] = d]
    /\ pc' = [pc EXCEPT ![r] = "done"]

\* the body does not validate: FastAPI answers 422 before the handler runs
RejectInvalid(r) ==
    /\ pc[r] = "idle"
    /\ loop = 0
    /\ \E b \in RequestBodies :
          /\ ~Validates(b)
          /\ body' = [body EXCEPT ![r] = b]
    /\ Respond(r, 422, {<<"validation", "">>})
    /\ UNCHANGED <<model_providers, lookups, loop, target, posts, reply, gen, exit,
                   connOpen, lines, out, callerGone>>

\* lines 54-57: the model is not in the directory
RejectUnknown(r) ==
    /\ pc[r] = "idle"
    /\ loop = 0
    /\ \E b \in RequestBodies :
          /\ Validates(b)
          /\ get_model_details(b.modelName) = None
          /\ body' = [body EXCEPT ![r] = b]
          /\ Respond(r, 404, {<<"model not found", b.modelName>>})
    /\ UNCHANGED <<model_providers, lookups, loop, target, posts, reply, gen, exit,
                   connOpen, lines, out, callerGone>>

\* lines 54-76: the model resolves and requests.post is called; the call is
\* synchronous inside `async def generate`, so the handler keeps the event
\* loop until requests.post returns or raises
CallUpstream(r) ==
    /\ pc[r] = "idle"
    /\ loop = 0
    /\ \E b \in RequestBodies :
          /\ Validates(b)
          /\ get_model_details(b.modelName) # None
          /\ body' = [body EXCEPT ![r] = b]
          /\ target' = [target EXCEPT ![r] = get_model_details(b.modelName)]
    /\ posts' = [posts EXCEPT ![r] = @ + 1]
    /\ pc' = [pc EXCEPT ![r] = "connecting"]
    /\ loop' = r
    /\ UNCHANGED <<model_providers, lookups, reply, status, detail, gen, exit,
                   connOpen, lines, out, callerGone>>

\* the server takes the request from the socket and runs the handler
Accept(r) == RejectInvalid(r) \/ RejectUnknown(r) \/ CallUpstream(r)

----------------------------------------------------------------------------
(* The upstream's answer to the POST *)

UpstreamCodes == {200, 304, 404, 503}

ErrorBodies == {"{\"error\":\"overloaded\"}", "Service Unavailable"}

\* response.raise_for_status(): "bad status codes (4xx or 5xx)"
RaisesForStatus(code) == 400 <= code /\ code < 600

Unreachable == [kind |-> "unreachable", code |-> 0, text |-> ""]

Response(code, text) == [kind |-> "response", code |-> code, text |-> text]

\* the message of line 118: it names the URL and the exception
ConnectMessage(api_url) == {<<"url", api_url>>, <<"error", "RequestException">>}

\* e.response.json(), or e.response.text when that raises JSONDecodeError
ResponseBody(text) ==
    IF JsonLoads(text).ok THEN {<<"json", text>>} ELSE {<<"text", text>>}

\* lines 118-123 with the URL left out of the message
ErrorDetail_NoUrl(api_url, rep) ==
    IF rep.kind = "unreachable" THEN {<<"error", "RequestException">>}
    ELSE ResponseBody(rep.text)

\* lines 118-123 with the upstream's body never taken
ErrorDetail_KeepsMessage(api_url, rep) == ConnectMessage(api_url)

\* lines 118-123: the message naming the URL, replaced by the upstream's body
\* (parsed when it is JSON, as text otherwise) when there is a response
ErrorDetail(api_url, rep) ==
    IF rep.kind = "unreachable" THEN ConnectMessage(api_url)
    ELSE ResponseBody(rep.text)

\* requests.post raises without a response: connect, DNS, timeout
ConnectFails(r) ==
    /\ pc[r] = "connecting"
    /\ reply' = [reply EXCEPT ![r] = Unreachable]
    /\ Respond(r, 502, ErrorDetail(target[r].url, Unreachable))
    /\ loop' = 0
    /\ UNCHANGED <<model_providers, lookups, body, target, posts, gen, exit,
                   connOpen, lines, out, callerGone>>

\* lines 76-77, 116-124: the upstream answers 4xx or 5xx; raise_for_status
\* raises HTTPError, which carries the response
UpstreamRejects(r) ==
    /\ pc[r] = "connecting"
    /\ \E code \in UpstreamCodes, text \in ErrorBodies :
          /\ RaisesForStatus(code)
          /\ reply' = [reply EXCEPT ![r] = Response(code, text)]
          /\ Respond(r, 502, ErrorDetail(target[r].url, Response(code, text)))
    /\ loop' = 0
    /\ UNCHANGED <<model_providers, lookups, body, target, posts, gen, exit,
                   connOpen, lines, out, callerGone>>

\* lines 76-79, 114: any other status; the handler returns the
\* StreamingResponse over a generator that has not run yet
UpstreamStreams(r) ==
    /\ pc[r] = "connecting"
    /\ \E code \in UpstreamCodes :
          /\ ~RaisesForStatus(code)
          /\ reply' = [reply EXCEPT ![r] = Response(code, "")]
    /\ status' = [status EXCEPT ![r] = 200]
    /\ pc' = [pc EXCEPT ![r] = "streaming"]
    /\ gen' = [gen EXCEPT ![r] = "created"]
    /\ connOpen' = [connOpen EXCEPT ![r] = TRUE]
    /\ loop' = 0
    /\ UNCHANGED <<model_providers, lookups, body, target, posts, detail, exit,
                   lines, out, callerGone>>

----------------------------------------------------------------------------
(* The streaming response: the server pulls stream_generator in a worker    *)
(* thread, one next() at a time                                             *)

\* lines 110-111 and the end of the response
CloseAndEnd(r, how) ==
    /\ exit' = [exit EXCEPT ![r] = how]
    /\ gen' = [gen EXCEPT ![r] = "finished"]
    /\ connOpen' = [connOpen EXCEPT ![r] = FALSE]
    /\ pc' = [pc EXCEPT ![r] = "done"]

\* the exception leaves the generator: the server fails the response
OnStreamException_Propagates(r, how) ==
    /\ CloseAndEnd(r, how)
    /\ status' = [status EXCEPT ![r] = 500]

\* lines 108-111: the exception is printed, the response closed, the body ends
OnStreamException(r, how) ==
    /\ CloseAndEnd(r, how)
    /\ UNCHANGED status

\* the server asks for the next chunk
Pull(r) ==
    /\ pc[r] = "streaming"
    /\ gen[r] \in {"created", "suspended"}
    /\ ~callerGone[r]
    /\ loop = 0
    /\ gen' = [gen EXCEPT ![r] = "running"]
    /\ UNCHANGED <<model_providers, lookups, loop, pc, body, target, posts, reply,
                   status, detail, exit, connOpen, lines, out, callerGone>>

\* lines 82-107: iter_lines hands out the next line, one of L
ReadLine(r, L) ==
    /\ gen[r] = "running"
    /\ Len(lines[r]) < MaxLines
    /\ \E line \in L :
        LET res == StreamLine(line) IN
          /\ lines' = [lines EXCEPT ![r] = Append(@, line)]
          /\ CASE res.kind = "skip" ->
                    UNCHANGED <<pc, status, gen, exit, connOpen, out>>
               [] res.kind = "yield" ->
                    /\ gen' = [gen EXCEPT ![r] = "suspended"]
                    /\ out' = [out EXCEPT ![r] =
                                 IF callerGone[r] THEN @ ELSE Append(@, res.frag)]
                    /\ UNCHANGED <<pc, status, exit, connOpen>>
               [] res.kind = "raise" ->
                    /\ OnStreamException(r, "line_error")
                    /\ UNCHANGED out
               [] res.kind = "break" ->
                    /\ CloseAndEnd(r, "exhausted")
                    /\ UNCHANGED <<status, out>>
    /\ UNCHANGED <<model_providers, lookups, loop, body, target, posts, reply,
                   detail, callerGone>>

\* the upstream's body ends: the for loop is over, finally closes the response
StreamEnds(r) ==
    /\ gen[r] = "running"
    /\ CloseAndEnd(r, "exhausted")
    /\ UNCHANGED <<model_providers, lookups, loop, body, target, posts, reply,
                   status, detail, lines, out, callerGone>>

\* iter_lines raises: the connection broke or timed out in mid-stream
StreamBreaks(r) ==
    /\ gen[r] = "running"
    /\ OnStreamException(r, "iter_error")
    /\ UNCHANGED <<model_providers, lookups, loop, body, target, posts, reply,
                   detail, lines, out, callerGone>>

\* the caller goes away while the response is streaming
CallerDisconnects(r) ==
    /\ pc[r] = "streaming"
    /\ ~callerGone[r]
    /\ callerGone' = [callerGone EXCEPT ![r] = TRUE]
    /\ UNCHANGED <<model_providers, lookups, loop, pc, body, target, posts, reply,
                   status, detail, gen, exit, connOpen, lines, out>>

\* the server discards a generator it never started: no line of its body,
\* and so neither its try nor its finally, is run
DropUnstarted(r) ==
    /\ pc[r] = "streaming"
    /\ callerGone[r]
    /\ loop = 0
    /\ gen[r] = "created"
    /\ gen' = [gen EXCEPT ![r] = "dropped"]
    /\ pc' = [pc EXCEPT ![r] = "done"]
    /\ UNCHANGED <<model_providers, lookups, loop, body, target, posts, reply,
                   status, detail, exit, connOpen, lines, out, callerGone>>

\* the server discards a generator suspended at its yield: GeneratorExit is
\* raised there, `except Exception` lets it pass, finally closes the response
CloseSuspended(r) ==
    /\ pc[r] = "streaming"
    /\ callerGone[r]
    /\ loop = 0
    /\ gen[r] = "suspended"
    /\ CloseAndEnd(r, "GeneratorExit")
    /\ UNCHANGED <<model_providers, lookups, loop, body, target, posts, reply,
                   status, detail, lines, out, callerGone>>

\* the steps of request r when the upstream's lines are drawn from L
RequestStep(r, L) ==
    \/ Accept(r)
    \/ ConnectFails(r)
    \/ UpstreamRejects(r)
    \/ UpstreamStreams(r)
    \/ Pull(r)
    \/ ReadLine(r, L)
    \/ StreamEnds(r)
    \/ StreamBreaks(r)
    \/ CallerDisconnects(r)
    \/ DropUnstarted(r)
    \/ CloseSuspended(r)

Init ==
    /\ model_providers \in SampleDirectories
    /\ lookups = [n \in QueryNames |-> {}]
    /\ InitRequests

\* one request, every kind of upstream line
Next == RequestStep(1, Lines)

Spec == Init /\ [][Next]_vars

\* the lines of a stream without faults
PlainLines == {HiLine, DoneLine}

\* two concurrent requests
NextConcurrent == \E r \in Requests : RequestStep(r, PlainLines)

ConcurrentSpec == Init /\ [][NextConcurrent]_vars

----------------------------------------------------------------------------
(* The lookup alone, over every directory within the bounds *)

InitResolve ==
    /\ model_providers \in Directories
    /\ lookups = [n \in QueryNames |-> {}]
    /\ InitRequests

Resolve(model_name) ==
    /\ lookups' = [lookups EXCEPT
                      ![model_name] = @ \cup {get_model_details(model_name)}]
    /\ UNCHANGED <<model_providers, reqVars>>

NextResolve == \E model_name \in QueryNames : Resolve(model_name)

ResolveSpec == InitResolve /\ [][NextResolve]_vars

----------------------------------------------------------------------------
(* What the properties below speak of *)

Last(seq) == seq[Len(seq)]

IsPrefix(a, b) == Len(a) <= Len(b) /\ SubSeq(b, 1, Len(a)) = a

IsSuffix(a, b) == Len(a) <= Len(b) /\ SubSeq(b, Len(b) - Len(a) + 1, Len(b)) = a

IsObject(v) == v.t = "dict"

HasKey(v, key) == IsObject(v) /\ key \in DOMAIN v.map

\* the text at choices[0].delta.content of a JSON document, <<>> when the
\* document has no non-empty text there
ContentOf(doc) ==
    IF /\ HasKey(doc, "choices")
       /\ doc.map.choices.t = "list"
       /\ Len(doc.map.choices.items) > 0
       /\ HasKey(doc.map.choices.items[1], "delta")
       /\ HasKey(doc.map.choices.items[1].map.delta, "content")
       /\ doc.map.choices.items[1].map.delta.map.content.t = "str"
       /\ doc.map.choices.items[1].map.delta.map.content.s # ""
    THEN <<doc.map.choices.items[1].map.delta.map.content.s>>
    ELSE <<>>

\* the fragment a line carries: a decodable line "data: <JSON>" with content
FragmentOf(line) ==
    IF /\ Len(line) = 2
       /\ line[1] = DataPrefix
       /\ line[2] # InvalidBytes
       /\ JsonLoads(line[2]).ok
    THEN ContentOf(JsonLoads(line[2]).val)
    ELSE <<>>

RECURSIVE ExpectedFragments(_)
ExpectedFragments(ls) ==
    IF ls = <<>> THEN <<>>
    ELSE FragmentOf(Head(ls)) \o ExpectedFragments(Tail(ls))

RECURSIVE AfterFirstDone(_)
\* the lines that follow the first "data: [DONE]" line; <<>> when there is none
AfterFirstDone(ls) ==
    IF ls = <<>> THEN <<>>
    ELSE IF Head(ls) = DoneLine THEN Tail(ls)
    ELSE AfterFirstDone(Tail(ls))

\* a "data: " line that is neither the sentinel nor carries a fragment
Malformed(line) ==
    /\ StartsWithData(line)
    /\ Strip(AfterPrefix(line)) # "[DONE]"
    /\ FragmentOf(line) = <<>>

Fault(how) == how \in {"iter_error", "line_error"}

Terminal(r) == pc[r] = "done"

----------------------------------------------------------------------------
(* C1: every request whose upstream stream was opened has released the      *)
(* upstream connection (response.close() was run) by the time it ends,      *)
(* whether the stream was consumed to its end, the caller went away, or     *)
(* iterating raised.                                                        *)
C1_ConnectionReleased ==
    \A r \in Requests :
        (Terminal(r) /\ status[r] = 200) => ~connOpen[r]

(* C2: while one request waits for its upstream's answer or for the next    *)
(* upstream line, another inbound request can still be accepted and served. *)
C2_NonBlocking ==
    \A a, b \in Requests :
        (a # b /\ (pc[a] = "connecting" \/ gen[a] = "running") /\ pc[b] = "idle")
            => ENABLED Accept(b)

(* C3: a request whose modelName is empty or missing issues no outbound     *)
(* POST and is answered with a client error, whatever the directory holds.  *)
C3_EmptyNameNeverReachesUpstream ==
    \A r \in Requests :
        (pc[r] # "idle" /\ (~body[r].hasModelName \/ body[r].modelName = ""))
            => /\ posts[r] = 0
               /\ status[r] \in {400, 404, 422}

JsonBodies == {"{\"error\":\"overloaded\"}"}

C5_UnreachableGives502 ==
    \A r \in Requests :
        reply[r].kind = "unreachable"
            => /\ status[r] = 502
               /\ target[r] = get_model_details(body[r].modelName)
               /\ <<"url", target[r].url>> \in detail[r]
               /\ gen[r] = "none"
               /\ ~connOpen[r]
               /\ out[r] = <<>>

C5_Witness ==
    \E r \in Requests :
        /\ reply[r].kind = "unreachable"
        /\ Terminal(r)
        /\ status[r] = 502
        /\ target[r].url = "u2"

(* C6: the fragments delivered are, in order, the non-empty                 *)
(* choices[0].delta.content texts of the "data: " lines read so far, one    *)
(* per such line and nothing for any other line; after the caller has gone  *)
(* they are a prefix of that sequence.                                      *)
C6_FragmentsInOrder ==
    \A r \in Requests :
        IF callerGone[r]
        THEN IsPrefix(out[r], ExpectedFragments(lines[r]))
        ELSE out[r] = ExpectedFragments(lines[r])

C6_Witness ==
    \E r \in Requests :
        /\ ~callerGone[r]
        /\ lines[r] = <<HiLine, CommentLine, YoLine>>
        /\ out[r] = <<"Hi", "Yo">>

(* C7: reading a "data: [DONE]" line forwards nothing and leaves the        *)
(* generator in its loop with the upstream response open; the content of    *)
(* the lines read after it is still forwarded.                              *)
C7_DoneDoesNotEndRelay ==
    [][\A r \in Requests :
          /\ (lines'[r] # lines[r] /\ Last(lines'[r]) = DoneLine)
                => /\ out'[r] = out[r]
                   /\ gen'[r] = "running"
                   /\ exit'[r] = "none"
                   /\ connOpen'[r]
          /\ ~callerGone'[r]
                => IsSuffix(ExpectedFragments(AfterFirstDone(lines'[r])), out'[r])
      ]_vars

C7_Witness ==
    \E r \in Requests :
        /\ lines[r] = <<HiLine, DoneLine, YoLine>>
        /\ out[r] = <<"Hi", "Yo">>
        /\ exit[r] = "exhausted"

(* C8: a malformed "data: " line never ends the relay and never fails the   *)
(* request: nothing is forwarded for it and the relay goes on to the later  *)
(* lines.                                                                   *)
C8_MalformedLineNeverEndsRelay ==
    \A r \in Requests :
        (lines[r] # <<>> /\ Malformed(Last(lines[r])))
            => /\ exit[r] # "line_error"
               /\ status[r] = 200

(* C10: once the 200 is committed the status never changes; a fault while   *)
(* iterating ends the stream with the fragments of the lines before it and  *)
(* nothing after it; a 404 or 502 is only produced when no fragment has     *)
(* been sent.                                                               *)
C10_FaultEndsStreamQuietly ==
    [][\A r \in Requests :
          /\ status[r] = 200 => status'[r] = 200
          /\ (exit[r] = "none" /\ Fault(exit'[r]))
                => /\ status'[r] = 200
                   /\ gen'[r] = "finished"
                   /\ out'[r] = out[r]
                   /\ ~callerGone[r] => out[r] = ExpectedFragments(lines[r])
          /\ Fault(exit[r]) => (out'[r] = out[r] /\ status'[r] = status[r])
          /\ status'[r] \in {404, 502}
                => /\ out[r] = <<>> /\ out'[r] = <<>>
                   /\ gen'[r] = "none"
                   /\ status[r] \in {0, status'[r]}
      ]_vars

C10_Witness ==
    \E r \in Requests :
        /\ Fault(exit[r])
        /\ Len(out[r]) > 0
        /\ status[r] = 200
        /\ Terminal(r)

----------------------------------------------------------------------------
(* C9, under ResolveSpec *)

Matches(model_name, i, j) ==
    /\ i \in 1..Len(model_providers)
    /\ j \in 1..Len(model_providers[i].models)
    /\ model_providers[i].models[j].name = model_name

Before(i, j, k, l) == i < k \/ (i = k /\ j < l)

\* res is what the first matching pair of the directory stands for
IsFirstMatch(model_name, res) ==
    \E i \in 1..Len(model_providers) :
      \E j \in 1..Len(model_providers[i].models) :
        /\ Matches(model_name, i, j)
        /\ \A k \in 1..Len(model_providers) :
             \A l \in 1..Len(model_providers[k].models) :
               Matches(model_name, k, l) => ~Before(k, l, i, j)
        /\ res # None
        /\ res.url = model_providers[i].url
        /\ res.apiName = model_providers[i].models[j].apiName
        /\ res.apiKey = IF "apiKey" \in DOMAIN model_providers[i]
                        THEN model_providers[i].apiKey ELSE ""

NoMatch(model_name) ==
    \A i \in 1..Len(model_providers) :
      \A j \in 1..Len(model_providers[i].models) : ~Matches(model_name, i, j)

FirstMatchWins ==
    \A model_name \in QueryNames :
        /\ Cardinality(lookups[model_name]) <= 1
        /\ \A res \in lookups[model_name] :
              IF NoMatch(model_name) THEN res = None
              ELSE IsFirstMatch(model_name, res)

(* C9: get_model_details returns the URL, the credential ("" without an     *)
(* apiKey) and the upstream name of the first provider, and in it the first *)
(* model, whose name is the one asked for; None exactly when there is none; *)
(* the same answer at every call, the directory never changing.             *)
C9_FirstMatchWins ==
    [][model_providers' = model_providers /\ FirstMatchWins']_vars

C9_Witness ==
    \E model_name \in QueryNames :
        /\ Len(model_providers) = 2
        /\ Len(model_providers[1].models) = 1
        /\ Len(model_providers[2].models) = 1
        /\ model_providers[1].models[1].name = model_name
        /\ model_providers[2].models[1].name = model_name
        /\ model_providers[1].url # model_providers[2].url
        /\ "apiKey" \notin DOMAIN model_providers[1]
        /\ "apiKey" \in DOMAIN model_providers[2]
        /\ lookups[model_name] =
              {[apiName |-> model_providers[1].models[1].apiName,
                url |-> model_providers[1].url, apiKey |-> ""]}

====
